---- MODULE Spec2Model ----
(***************************************************************************)
(* Model of src/handler.py: the serverless handler in front of a local     *)
(* ComfyUI inference server.  Two threads of control exist in the worker:  *)
(* the background pre-warm thread (init_comfyui) and the handler           *)
(* invocations, which the harness runs one at a time.  Both share the      *)
(* globals comfyui_process and comfyui_ready without a lock.               *)
(***************************************************************************)
EXTENDS Integers, Sequences, FiniteSets, TLC

(* ------------------------------ bounds --------------------------------- *)
\* process slots; the slot of a process that has exited and whose Popen object
\* the worker no longer holds is free again ("unborn")
MaxProcs == 2

(* ------------------------- program constants --------------------------- *)
max_retries == 60

\* the value None of comfyui_process; process objects are numbered from 1
None == 0

Threads == {"init", "handler"}

VARIABLES
    procs,            \* OS view of every process slot: unborn/starting/serving/exited
    comfyui_process,  \* global: None or the slot of the last Popen object
    comfyui_ready,    \* global readiness flag
    s3_complete,      \* all four S3_* settings were in the environment at import
    pc,               \* control location of each thread
    retry,            \* loop variable i of start_comfyui's poll loop, per thread
    sc_outcome,       \* how the start_comfyui call the thread has just made ended
    workflow_name,    \* handler local
    workflow_json,    \* handler local: the graph the event supplied, if any
    workflow,         \* handler local: the job graph
    params,           \* handler local
    prompt_id,        \* handler local
    outputs,          \* handler local: the manifest wait_for_completion returned
    output_files,     \* handler local
    output_urls,      \* handler local: delivery records so far
    elapsed,          \* wait_for_completion: time.time() - start_time
    history,          \* wait_for_completion: the last history response
    result,           \* what the handler returned to the harness
    raised,           \* the exception that left the handler's try block, if any
    stages,           \* record: stages this invocation has entered, in order
    posts,            \* record: POST /prompt requests issued by this invocation
    respawn_due,      \* record: the invocation began with the server absent or exited
                      \*         and no server has been spawned since
    fetch_failed,     \* record: a download_image call of this invocation failed
    deliveries,       \* record: per delivered file, what the upload and getsize did
    fetches,          \* record: the node ids download_image was called for, in call order
    loads,            \* record: load_workflow calls made by this invocation
    call              \* one call of a function on its own: its arguments and its value

supervisor == <<procs, comfyui_process, comfyui_ready>>
locals == <<workflow_name, workflow_json, workflow, params, prompt_id, outputs, output_files,
            output_urls>>
waiting == <<elapsed, history>>
returned == <<result, raised>>
records == <<stages, posts, fetch_failed, deliveries, fetches, loads>>
vars == <<procs, comfyui_process, comfyui_ready, s3_complete, pc, retry, sc_outcome,
          workflow_name, workflow_json, workflow, params, prompt_id, outputs, output_files,
          output_urls, elapsed, history, result, raised, stages, posts, respawn_due,
          fetch_failed, deliveries, fetches, loads, call>>

ProcIds == 1..MaxProcs

Alive == {p \in ProcIds : procs[p] \in {"starting", "serving"}}

\* Popen.poll() is None: the process has not terminated
PollIsNone(p) == procs[p] \in {"starting", "serving"}

\* the supervised server is absent or has exited
ServerGone == comfyui_process = None \/ ~PollIsNone(comfyui_process)

NoResult == [status |-> "PENDING"]

\* Python's None where the model holds a string (str(None) = "None")
PyNone == "None"

\* no history response received yet
NoHistory == [kind |-> "none", outputs |-> <<>>]

Exc(cls, msg) == [cls |-> cls, msg |-> msg]
NoExc == Exc("none", <<>>)

\* dict.get gave None for a graph
NoGraph == [present |-> FALSE]

\* no function is being called on its own
NoCall == [fn |-> "none"]

\* the module has been run: the pre-warm thread is started, no invocation yet
Init ==
    /\ procs = [p \in ProcIds |-> "unborn"]
    /\ comfyui_process = None
    /\ comfyui_ready = FALSE
    /\ s3_complete \in BOOLEAN
    /\ pc = [t \in Threads |-> IF t = "init" THEN "sc48" ELSE "h_idle"]
    /\ retry = [t \in Threads |-> 0]
    /\ sc_outcome = [t \in Threads |-> "none"]
    /\ workflow_name = PyNone
    /\ workflow_json = NoGraph
    /\ workflow = <<>>
    /\ params = <<>>
    /\ prompt_id = PyNone
    /\ outputs = <<>>
    /\ output_files = <<>>
    /\ output_urls = <<>>
    /\ elapsed = 0
    /\ history = NoHistory
    /\ result = NoResult
    /\ raised = NoExc
    /\ stages = <<>>
    /\ posts = 0
    /\ respawn_due = FALSE
    /\ fetch_failed = FALSE
    /\ deliveries = <<>>
    /\ fetches = <<>>
    /\ loads = 0
    /\ call = NoCall

(* ------------------- the inference server subprocess ------------------- *)
\* GET /system_stats answers 200 only while a spawned server listens on the port
SomeServing == \E p \in ProcIds : procs[p] = "serving"

\* a starting server finishes loading and binds 127.0.0.1:8188
ServerStartsServing(p) ==
    /\ procs[p] = "starting"
    /\ ~SomeServing
    /\ procs' = [procs EXCEPT ![p] = "serving"]
    /\ UNCHANGED <<comfyui_process, comfyui_ready, s3_complete, call, pc, retry, sc_outcome,
                   locals, waiting, returned, records, respawn_due>>

\* a spawned server terminates (crash, port in use, kill); nothing can observe
\* the exit of a process the worker holds no object of
ServerExits(p) ==
    /\ procs[p] \in {"starting", "serving"}
    /\ procs' = [procs EXCEPT ![p] = IF comfyui_process = p THEN "exited" ELSE "unborn"]
    /\ UNCHANGED <<comfyui_process, comfyui_ready, s3_complete, call, pc, retry, sc_outcome,
                   locals, waiting, returned, records, respawn_due>>

(* ----------------------------- exceptions ------------------------------ *)
ProcessDied(p) == Exc("RuntimeError", <<"ComfyUI process died: ", <<"stderr", p>> >>)
StartTimeout == Exc("RuntimeError", <<"ComfyUI API server failed to start within timeout">>)
NoneHasNoPoll == Exc("AttributeError", <<"'NoneType' object has no attribute 'poll'">>)

\* an except clause that names two classes only
HandlerCatchesNarrow(cls) == cls \in {"RuntimeError", "ValueError"}

\* classes the handler's "except Exception" clause catches
HandlerCatches(cls) ==
    cls \in {"RuntimeError", "AttributeError", "ValueError", "FileNotFoundError",
             "RequestException", "HTTPError", "TimeoutError", "OSError", "KeyError"}

\* time.time() - start_time, a float the model does not compute
ExecTime == "elapsed_seconds"

\* the result built by the handler's top-level except clause
FailedResult(e) == [error |-> e.msg, status |-> "FAILED", execution_time |-> ExecTime]

\* an exception e leaves the handler's try block
HandlerRaise(e) ==
    /\ raised' = e
    /\ IF HandlerCatches(e.cls)
         THEN /\ pc' = [pc EXCEPT !["handler"] = "h_done"]
              /\ result' = FailedResult(e)
         ELSE /\ pc' = [pc EXCEPT !["handler"] = "h_crashed"]
              /\ UNCHANGED result

(* --------------------------- start_comfyui ----------------------------- *)
\* a normal return of start_comfyui to its caller (the loop variable dies with the call)
ScReturn(t) ==
    /\ pc' = [pc EXCEPT ![t] = IF t = "init" THEN "init_done" ELSE "h_parse"]
    /\ sc_outcome' = [sc_outcome EXCEPT ![t] = "returned"]
    /\ retry' = [retry EXCEPT ![t] = 0]
    /\ UNCHANGED returned

\* start_comfyui raises e: init_comfyui prints it, handler turns it into a result
ScRaise(t, e, how) ==
    /\ sc_outcome' = [sc_outcome EXCEPT ![t] = how]
    /\ retry' = [retry EXCEPT ![t] = 0]
    /\ IF t = "init"
         THEN /\ pc' = [pc EXCEPT ![t] = "init_done"]
              /\ UNCHANGED returned
         ELSE HandlerRaise(e)

\* line 48: already started and ready
Sc48(t) ==
    /\ pc[t] = "sc48"
    /\ IF comfyui_process # None /\ comfyui_ready
         THEN ScReturn(t)
         ELSE /\ pc' = [pc EXCEPT ![t] = "sc51"]
              /\ UNCHANGED <<sc_outcome, retry, returned>>
    /\ UNCHANGED <<supervisor, s3_complete, call, locals, waiting, records, respawn_due>>

\* lines 51-57: a process object exists: return if it runs, forget it if it died
Sc51(t) ==
    /\ pc[t] = "sc51"
    /\ IF comfyui_process # None
         THEN IF PollIsNone(comfyui_process)
                THEN /\ ScReturn(t)
                     /\ UNCHANGED <<procs, comfyui_process>>
                ELSE /\ comfyui_process' = None
                     /\ procs' = [procs EXCEPT ![comfyui_process] = "unborn"]
                     /\ pc' = [pc EXCEPT ![t] = "sc62"]
                     /\ UNCHANGED <<sc_outcome, retry, returned>>
         ELSE /\ pc' = [pc EXCEPT ![t] = "sc62"]
              /\ UNCHANGED <<procs, comfyui_process, sc_outcome, retry, returned>>
    /\ UNCHANGED <<comfyui_ready, s3_complete, call, locals, waiting, records, respawn_due>>

\* a slot that holds no process
FreeSlot(p) == procs[p] = "unborn"

\* the slots after Popen into slot p: the process whose object is overwritten,
\* if it had exited, is gone for good
AfterSpawn(p) ==
    [q \in ProcIds |->
       IF q = p THEN "starting"
       ELSE IF q = comfyui_process /\ procs[q] = "exited" THEN "unborn" ELSE procs[q]]

\* lines 59-71: Popen a new server and enter the poll loop
Sc62(t) ==
    /\ pc[t] = "sc62"
    /\ \E p \in ProcIds :
        /\ FreeSlot(p)
        /\ \A q \in ProcIds : q < p => ~FreeSlot(q)
        /\ procs' = AfterSpawn(p)
        /\ comfyui_process' = p
    /\ pc' = [pc EXCEPT ![t] = "sc74"]
    /\ retry' = [retry EXCEPT ![t] = 0]
    /\ respawn_due' = FALSE
    /\ UNCHANGED <<comfyui_ready, s3_complete, call, sc_outcome, locals, waiting, returned,
                   records>>

\* what GET /system_stats can give: a status code or a RequestException
StatusPolls == {"200", "503", "RequestException"}

\* a poll loop that never looks at the process
Sc74Unchecked(t) ==
    /\ pc[t] = "sc74"
    /\ \E status \in StatusPolls :
        /\ status = "200" => SomeServing
        /\ IF status = "200"
             THEN /\ comfyui_ready' = TRUE
                  /\ ScReturn(t)
             ELSE /\ UNCHANGED comfyui_ready
                  /\ IF retry[t] + 1 < max_retries
                       THEN /\ retry' = [retry EXCEPT ![t] = retry[t] + 1]
                            /\ UNCHANGED <<pc, sc_outcome, returned>>
                       ELSE ScRaise(t, StartTimeout, "timeout")
    /\ UNCHANGED <<procs, comfyui_process, s3_complete, call, locals, waiting, records,
                   respawn_due>>

\* lines 72-89: one iteration of the poll loop.  A 200 sets the flag and returns;
\* anything else is swallowed, then the process is checked, then time.sleep(2).
\* The GET reads no program state, so the iteration is taken in one step.
Sc74(t) ==
    /\ pc[t] = "sc74"
    /\ \E status \in StatusPolls :
        /\ status = "200" => SomeServing
        /\ IF status = "200"
             THEN /\ comfyui_ready' = TRUE
                  /\ ScReturn(t)
             ELSE /\ UNCHANGED comfyui_ready
                  /\ IF comfyui_process = None
                       THEN ScRaise(t, NoneHasNoPoll, "AttributeError")
                       ELSE IF ~PollIsNone(comfyui_process)
                              THEN ScRaise(t, ProcessDied(comfyui_process), "died")
                              ELSE IF retry[t] + 1 < max_retries
                                     THEN /\ retry' = [retry EXCEPT ![t] = retry[t] + 1]
                                          /\ UNCHANGED <<pc, sc_outcome, returned>>
                                     ELSE ScRaise(t, StartTimeout, "timeout")
    /\ UNCHANGED <<procs, comfyui_process, s3_complete, call, locals, waiting, records,
                   respawn_due>>

(* -------------------------- handler: inputs ---------------------------- *)
\* AVAILABLE_WORKFLOWS: registry key -> definition file, in dict order
RegistryKeys == <<"t2v", "i2v", "fun_camera", "vace">>

AVAILABLE_WORKFLOWS ==
    [k \in {RegistryKeys[n] : n \in DOMAIN RegistryKeys} |-> <<k, ".json">>]

TextNode(id, text) ==
    [id |-> id, class_type |-> "CLIPTextEncode", inputs |-> [text |-> text]]
ImageNode(id, image) ==
    [id |-> id, class_type |-> "LoadImage", inputs |-> [image |-> image]]
OtherNode(id) ==
    [id |-> id, class_type |-> "KSampler", inputs |-> [seed |-> "1"]]

\* sample graphs: a job graph is a dict, kept as the sequence of its nodes in dict order
\* a node id is the sequence of the pieces its "/" characters separate: "10" is <<"10">>
GraphT2V == <<TextNode(<<"6">>, "stored text"), OtherNode(<<"3">>)>>
GraphI2V == <<TextNode(<<"6">>, "stored text"), ImageNode(<<"10">>, "example.png")>>
GraphCustom ==
    <<ImageNode(<<"10">>, "a.png"), TextNode(<<"6">>, "custom"), ImageNode(<<"11">>, "b.png")>>

\* json.load of a definition file under WORKFLOWS_DIR
StoredWorkflow(file) == IF file = <<"i2v", ".json">> THEN GraphI2V ELSE GraphT2V

\* sample values of event["input"]; a key that is absent is absent from the record
InputData ==
    { <<>>,
      [workflow_name |-> ""],
      [workflow_name |-> "t2v", params |-> [prompt |-> "a cat"]],
      [workflow_name |-> "t2v", workflow_json |-> <<>>, params |-> [prompt |-> "a cat"]],
      [workflow_name |-> "bogus"],
      [workflow_json |-> GraphCustom,
       params |-> [positive_prompt |-> "A", prompt |-> "B", image_url |-> "http://host/in.png"]],
      [workflow_name |-> "bogus", workflow_json |-> GraphT2V, params |-> <<>>] }

\* dict.get(key) with Python truthiness of the value
HasKey(d, k) == k \in DOMAIN d

(* ------------------------- load_workflow (92-104) ---------------------- *)
UnknownWorkflow(name) ==
    Exc("ValueError", <<"Unknown workflow_type: ", name, ". Available: ", RegistryKeys>>)
WorkflowNotFound(file) ==
    Exc("FileNotFoundError", <<"Workflow file not found: ", "/comfyui/workflows", file>>)

\* a loader that hands out the first registry entry for an identifier it does not know
load_workflow_defaulting(workflow_type, file_exists) ==
    LET known == IF workflow_type \in DOMAIN AVAILABLE_WORKFLOWS
                   THEN workflow_type ELSE RegistryKeys[1]
    IN  IF ~file_exists
          THEN [ok |-> FALSE, exc |-> WorkflowNotFound(AVAILABLE_WORKFLOWS[known])]
          ELSE [ok |-> TRUE, value |-> StoredWorkflow(AVAILABLE_WORKFLOWS[known])]

\* load_workflow(workflow_type) with the definition file present or not:
\* [ok |-> TRUE, value |-> graph] or [ok |-> FALSE, exc |-> exception]
load_workflow(workflow_type, file_exists) ==
    IF workflow_type \notin DOMAIN AVAILABLE_WORKFLOWS
      THEN [ok |-> FALSE, exc |-> UnknownWorkflow(workflow_type)]
      ELSE IF ~file_exists
             THEN [ok |-> FALSE, exc |-> WorkflowNotFound(AVAILABLE_WORKFLOWS[workflow_type])]
             ELSE [ok |-> TRUE, value |-> StoredWorkflow(AVAILABLE_WORKFLOWS[workflow_type])]

(* ------------------ update_workflow_with_inputs (195-216) -------------- *)
FetchFailed(url) == Exc("RequestException", <<"fetch failed: ", url>>)

\* os.path.basename(f"/tmp/input_image_{node_id}.png"): what follows the last "/"
InputImageName(node_id) ==
    IF Len(node_id) = 1
      THEN <<"input_image_", node_id[1], ".png">>
      ELSE <<node_id[Len(node_id)], ".png">>

\* lines 199-204 with the two keys tested in the other order
BindTextPromptFirst(node, ps) ==
    IF node.class_type = "CLIPTextEncode" /\ HasKey(node.inputs, "text")
      THEN IF HasKey(ps, "prompt")
             THEN [node EXCEPT !.inputs.text = ps.prompt]
             ELSE IF HasKey(ps, "positive_prompt")
                    THEN [node EXCEPT !.inputs.text = ps.positive_prompt]
                    ELSE node
      ELSE node

\* lines 199-204 on one node
BindText(node, ps) ==
    IF node.class_type = "CLIPTextEncode" /\ HasKey(node.inputs, "text")
      THEN IF HasKey(ps, "positive_prompt")
             THEN [node EXCEPT !.inputs.text = ps.positive_prompt]
             ELSE IF HasKey(ps, "prompt")
                    THEN [node EXCEPT !.inputs.text = ps.prompt]
                    ELSE node
      ELSE node

\* lines 207-214: does this node trigger download_image?
NeedsFetch(node, ps) == node.class_type = "LoadImage" /\ HasKey(ps, "image_url")

BindImage(node, ps) ==
    IF NeedsFetch(node, ps)
      THEN [node EXCEPT !.inputs =
              [k \in DOMAIN node.inputs \cup {"image"} |->
                 IF k = "image" THEN InputImageName(node.id) ELSE node.inputs[k]]]
      ELSE node

\* the loop of lines 198-214 from node k on; fetch_ok holds the ids of the nodes
\* whose download succeeds.  Gives the graph, the ids fetched, and the exception if any.
RECURSIVE BindFrom(_, _, _, _, _)
BindFrom(wf, ps, fetch_ok, k, fetched) ==
    IF k > Len(wf)
      THEN [ok |-> TRUE, value |-> wf, fetched |-> fetched]
      ELSE LET node == BindText(wf[k], ps)
           IN  IF NeedsFetch(node, ps) /\ node.id \notin fetch_ok
                 THEN [ok |-> FALSE, exc |-> FetchFailed(ps.image_url),
                       fetched |-> Append(fetched, node.id)]
                 ELSE BindFrom([wf EXCEPT ![k] = BindImage(node, ps)], ps, fetch_ok, k + 1,
                               IF NeedsFetch(node, ps) THEN Append(fetched, node.id)
                               ELSE fetched)

\* the ids of the nodes download_image is called for
FetchNodes(wf, ps) == {wf[k].id : k \in {n \in DOMAIN wf : NeedsFetch(wf[n], ps)}}

\* a binder that swallows a failed download and binds the node all the same
update_workflow_swallowing(wf, ps, fetch_ok) ==
    BindFrom(wf, ps, FetchNodes(wf, ps), 1, <<>>)

update_workflow_with_inputs(wf, ps, fetch_ok) == BindFrom(wf, ps, fetch_ok, 1, <<>>)


(* ------------------------------ handler -------------------------------- *)
StageOrder ==
    <<"ensure_ready", "resolve", "bind", "submit", "await", "collect", "deliver">>

\* lines 259-264: the harness calls handler(event); start_comfyui unless ready
HandlerInvoke ==
    /\ pc["handler"] \in {"h_idle", "h_done"}
    /\ result' = NoResult
    /\ sc_outcome' = [sc_outcome EXCEPT !["handler"] = "none"]
    /\ pc' = [pc EXCEPT !["handler"] = IF comfyui_ready THEN "h_parse" ELSE "sc48"]
    /\ workflow_name' = PyNone
    /\ workflow_json' = NoGraph
    /\ workflow' = <<>>
    /\ params' = <<>>
    /\ prompt_id' = PyNone
    /\ outputs' = <<>>
    /\ output_files' = <<>>
    /\ output_urls' = <<>>
    /\ elapsed' = 0
    /\ history' = NoHistory
    /\ raised' = NoExc
    /\ stages' = <<"ensure_ready">>
    /\ posts' = 0
    /\ respawn_due' = ServerGone
    /\ fetch_failed' = FALSE
    /\ deliveries' = <<>>
    /\ fetches' = <<>>
    /\ loads' = 0
    /\ UNCHANGED <<supervisor, s3_complete, call, retry>>

\* lines 273-277
MissingWorkflowResult ==
    [error |-> "workflow_name or workflow_json is required", status |-> "FAILED"]

\* lines 267-283: parse the event, then take workflow_json or load the named workflow
HandlerResolve ==
    /\ pc["handler"] = "h_parse"
    /\ \E input_data \in InputData, file_exists \in BOOLEAN :
        LET name == IF HasKey(input_data, "workflow_name")
                      THEN input_data.workflow_name ELSE PyNone
            name_given == HasKey(input_data, "workflow_name") /\ input_data.workflow_name # ""
            json_given == HasKey(input_data, "workflow_json") /\ input_data.workflow_json # <<>>
            loaded == load_workflow(name, file_exists)
        IN  /\ workflow_name' = name
            /\ workflow_json' = IF HasKey(input_data, "workflow_json")
                                  THEN [present |-> TRUE, value |-> input_data.workflow_json]
                                  ELSE NoGraph
            /\ params' = IF HasKey(input_data, "params") THEN input_data.params ELSE <<>>
            /\ IF ~name_given /\ ~json_given
                 THEN /\ result' = MissingWorkflowResult
                      /\ pc' = [pc EXCEPT !["handler"] = "h_done"]
                      /\ UNCHANGED <<workflow, stages, raised, loads>>
                 ELSE /\ stages' = Append(stages, "resolve")
                      /\ IF json_given
                           THEN /\ workflow' = input_data.workflow_json
                                /\ pc' = [pc EXCEPT !["handler"] = "h_bind"]
                                /\ UNCHANGED <<returned, loads>>
                           ELSE /\ loads' = loads + 1
                                /\ IF loaded.ok
                                     THEN /\ workflow' = loaded.value
                                          /\ pc' = [pc EXCEPT !["handler"] = "h_bind"]
                                          /\ UNCHANGED returned
                                     ELSE /\ HandlerRaise(loaded.exc)
                                          /\ UNCHANGED workflow
    /\ sc_outcome' = [sc_outcome EXCEPT !["handler"] = "none"]
    /\ UNCHANGED <<supervisor, s3_complete, call, retry, prompt_id, outputs, output_files,
                   output_urls, waiting, posts, respawn_due, fetch_failed, fetches,
                   deliveries>>

\* line 286: bind the parameters, fetching one image per LoadImage node
HandlerBind ==
    /\ pc["handler"] = "h_bind"
    /\ stages' = Append(stages, "bind")
    /\ \E fetch_ok \in SUBSET FetchNodes(workflow, params) :
        LET bound == update_workflow_with_inputs(workflow, params, fetch_ok)
        IN  /\ fetch_failed' = (fetch_ok # FetchNodes(workflow, params))
            /\ fetches' = bound.fetched
            /\ IF bound.ok
                 THEN /\ workflow' = bound.value
                      /\ pc' = [pc EXCEPT !["handler"] = "h_queue"]
                      /\ UNCHANGED returned
                 ELSE /\ HandlerRaise(bound.exc)
                      /\ UNCHANGED workflow
    /\ UNCHANGED <<supervisor, s3_complete, call, retry, sc_outcome, workflow_name, workflow_json, params,
                   prompt_id, outputs, output_files, output_urls, waiting, posts,
                   respawn_due, deliveries, loads>>

(* --------------------- queue_workflow (142-150) ------------------------ *)
SubmitFailed(how) == Exc(how, <<"POST /prompt failed: ", how>>)

\* what POST /prompt can give: a prompt_id, or raise_for_status / a transport error
PostOutcomes == {"ok", "HTTPError", "RequestException"}

\* line 289: POST the graph; an answer needs a server that listens
HandlerQueue ==
    /\ pc["handler"] = "h_queue"
    /\ stages' = Append(stages, "submit")
    /\ posts' = posts + 1
    /\ \E outcome \in PostOutcomes :
        /\ outcome # "RequestException" => SomeServing
        /\ IF outcome = "ok"
             THEN /\ prompt_id' = "abc"
                  /\ pc' = [pc EXCEPT !["handler"] = "h_wait"]
                  /\ UNCHANGED returned
             ELSE /\ HandlerRaise(SubmitFailed(outcome))
                  /\ UNCHANGED prompt_id
    /\ UNCHANGED <<supervisor, s3_complete, call, retry, sc_outcome, workflow_name, workflow_json, workflow,
                   params, outputs, output_files, output_urls, waiting, respawn_due,
                   fetch_failed, fetches, loads, deliveries>>

(* ------------------------------ files ---------------------------------- *)
\* a filename as os.path.splitext sees it; the extension is kept letter by letter
File(stem, ext) == [stem |-> stem, ext |-> ext]
CatPng == File("cat", <<".", "p", "n", "g">>)
ClipMp4 == File("clip", <<".", "m", "p", "4">>)
AnimGif == File("anim", <<".", "g", "i", "f">>)

\* a filename that begins with "/", such as "/etc/hosts"
RootedFile(stem, ext) == [root |-> "/", stem |-> stem, ext |-> ext]
EtcHosts == RootedFile("etc/hosts", <<>>)
IsAbs(f) == HasKey(f, "root")

FileNames == {CatPng, ClipMp4, AnimGif}

\* a media descriptor of the manifest
Desc(f) == [filename |-> f]

\* sample output manifests: the nodes in dict order, each with its output record
ManPng == <<[node |-> "9", out |-> [images |-> <<Desc(CatPng)>>]]>>
ManVideo == <<[node |-> "12", out |-> [videos |-> <<Desc(ClipMp4)>>]]>>
ManBoth ==
    <<[node |-> "9", out |-> [videos |-> <<Desc(ClipMp4)>>, images |-> <<Desc(AnimGif)>>]]>>
ManText == <<[node |-> "9", out |-> [text |-> <<"done">>]]>>

Manifests == {ManPng, ManVideo, ManBoth, ManText}

\* manifests for get_output_files on its own: two nodes, a repeated filename, a
\* descriptor without a filename, an absolute filename
ManRepeated ==
    <<[node |-> "9", out |-> [videos |-> <<Desc(ClipMp4)>>,
                              images |-> <<Desc(CatPng), Desc(CatPng)>>]],
      [node |-> "12", out |-> [images |-> <<[subfolder |-> "x"], Desc(AnimGif)>>]]>>
ManRooted == <<[node |-> "9", out |-> [images |-> <<Desc(EtcHosts), Desc(CatPng)>>]]>>
CallManifests == Manifests \cup {ManRepeated, ManRooted}

(* ------------------- wait_for_completion (153-168) --------------------- *)
\* the default of the timeout parameter, in seconds
timeout == 600

\* seconds one iteration takes (the request, then time.sleep(1)), in coarse steps
\* that land on both sides of the timeout and on it
Delays == {timeout \div 2, timeout - 1}

CompletionTimeout(id) ==
    Exc("TimeoutError", <<"Workflow ", id, " did not complete within ", timeout, " seconds">>)
HistoryFailed == Exc("RequestException", <<"GET /history failed">>)

\* GET /history/{prompt_id}: the body with or without the handle, or a transport error
HistoryResponses ==
    {[kind |-> "error", outputs |-> <<>>], [kind |-> "absent", outputs |-> <<>>]}
    \cup {[kind |-> "present", outputs |-> m] : m \in Manifests \cup {<<>>}}

\* the test without "if output:"
QualifiesPresent(resp) == resp.kind = "present"

\* lines 161-163: the handle is in the history and its outputs are truthy
Qualifies(resp) == resp.kind = "present" /\ resp.outputs # <<>>

\* line 157: the loop condition
KeepsWaiting(t) == t < timeout

\* line 292: one iteration of wait_for_completion's loop, or its timeout
HandlerWait ==
    /\ pc["handler"] = "h_wait"
    /\ stages' = IF stages[Len(stages)] = "await" THEN stages ELSE Append(stages, "await")
    /\ IF ~KeepsWaiting(elapsed)
         THEN /\ HandlerRaise(CompletionTimeout(prompt_id))
              /\ UNCHANGED <<outputs, waiting>>
         ELSE \E resp \in HistoryResponses, d \in Delays :
                /\ resp.kind # "error" => SomeServing
                /\ history' = resp
                /\ IF resp.kind = "error"
                     THEN /\ HandlerRaise(HistoryFailed)
                          /\ UNCHANGED <<outputs, elapsed>>
                     ELSE IF Qualifies(resp)
                            THEN /\ outputs' = resp.outputs
                                 /\ pc' = [pc EXCEPT !["handler"] = "h_collect"]
                                 /\ UNCHANGED <<returned, elapsed>>
                            ELSE /\ elapsed' = elapsed + d
                                 /\ UNCHANGED <<pc, returned, outputs>>
    /\ UNCHANGED <<supervisor, s3_complete, call, retry, sc_outcome, workflow_name, workflow_json, workflow,
                   params, prompt_id, output_files, output_urls, posts, respawn_due,
                   fetch_failed, fetches, loads, deliveries>>

(* --------------------- get_output_files (171-192) ---------------------- *)
\* os.path.join("/comfyui/output", filename): an absolute filename discards the directory
OutputPath(f) ==
    IF IsAbs(f) THEN [dir |-> "", name |-> f] ELSE [dir |-> "/comfyui/output", name |-> f]

\* one list of descriptors: those with a filename whose path exists, in list order
RECURSIVE CollectList(_, _)
CollectList(list, exists) ==
    IF list = <<>>
      THEN <<>>
      ELSE LET d == Head(list)
               here == IF HasKey(d, "filename") /\ OutputPath(d.filename) \in exists
                         THEN <<OutputPath(d.filename)>> ELSE <<>>
           IN  here \o CollectList(Tail(list), exists)

\* one node's record: the images list, then the videos list
CollectNode(out, exists) ==
    (IF HasKey(out, "images") THEN CollectList(out.images, exists) ELSE <<>>)
    \o (IF HasKey(out, "videos") THEN CollectList(out.videos, exists) ELSE <<>>)

RECURSIVE get_output_files(_, _)
get_output_files(manifest, exists) ==
    IF manifest = <<>>
      THEN <<>>
      ELSE CollectNode(Head(manifest).out, exists) \o get_output_files(Tail(manifest), exists)

\* lines 297-301
NoOutputResult == [error |-> "No output files generated", status |-> "FAILED"]

\* a collect step without the test of lines 297-301
HandlerCollectUntested ==
    /\ pc["handler"] = "h_collect"
    /\ stages' = Append(stages, "collect")
    /\ \E exists \in SUBSET {OutputPath(f) : f \in FileNames} :
        output_files' = get_output_files(outputs, exists)
    /\ pc' = [pc EXCEPT !["handler"] = "h_deliver"]
    /\ elapsed' = 0
    /\ history' = NoHistory
    /\ UNCHANGED <<supervisor, s3_complete, call, retry, sc_outcome, workflow_name,
                   workflow_json, workflow, params, prompt_id, outputs, output_urls,
                   returned, posts, respawn_due, fetch_failed, fetches, loads, deliveries>>

\* lines 295-305: collect the files that exist now (wait_for_completion's frame is gone)
HandlerCollect ==
    /\ pc["handler"] = "h_collect"
    /\ stages' = Append(stages, "collect")
    /\ \E exists \in SUBSET {OutputPath(f) : f \in FileNames} :
        LET files == get_output_files(outputs, exists)
        IN  /\ output_files' = files
            /\ IF files = <<>>
                 THEN /\ result' = NoOutputResult
                      /\ pc' = [pc EXCEPT !["handler"] = "h_done"]
                 ELSE /\ pc' = [pc EXCEPT !["handler"] = "h_deliver"]
                      /\ UNCHANGED result
    /\ elapsed' = 0
    /\ history' = NoHistory
    /\ UNCHANGED <<supervisor, s3_complete, call, retry, sc_outcome, workflow_name, workflow_json, workflow,
                   params, prompt_id, outputs, output_urls, raised, posts, respawn_due,
                   fetch_failed, fetches, loads, deliveries>>

(* ----------------------- upload_to_s3 (119-139) ----------------------- *)
S3Incomplete == Exc("ValueError", <<"S3 configuration is incomplete">>)
PutFailed == Exc("ClientError", <<"put-object failed">>)

\* f"generated/{workflow_name}/{timestamp}_{i}{file_ext}"
S3Key(name, i, ext) == <<"generated/", name, "/", "timestamp", "_", i, ext>>

\* f"{base_url}/{S3_BUCKET}/{s3_key}"
S3Url(key) == <<"base_url", "/", "S3_BUCKET", "/", key>>

\* upload_to_s3 with the put-object call succeeding or not
\* an upload that tries the put-object a second time when the first one fails
upload_to_s3_retrying(key, configured, put_ok) ==
    IF ~configured
      THEN [ok |-> FALSE, exc |-> S3Incomplete, puts |-> 0]
      ELSE IF ~put_ok
             THEN [ok |-> FALSE, exc |-> PutFailed, puts |-> 2]
             ELSE [ok |-> TRUE, value |-> S3Url(key), puts |-> 1]

\* puts counts the s3_client.upload_file invocations the call made
upload_to_s3(key, configured, put_ok) ==
    IF ~configured
      THEN [ok |-> FALSE, exc |-> S3Incomplete, puts |-> 0]
      ELSE IF ~put_ok
             THEN [ok |-> FALSE, exc |-> PutFailed, puts |-> 1]
             ELSE [ok |-> TRUE, value |-> S3Url(key), puts |-> 1]

(* --------------------- delivery loop (303-336) ------------------------- *)
\* the inline fallback's size limit, line 323
Threshold == 10 * 1024 * 1024

\* sizes os.path.getsize may report, in bytes
Sizes == {Threshold - 1, Threshold}

\* what the file is when the fallback looks at it
FileStates == Sizes \cup {-1}
Missing(size) == size < 0

VideoExts == {<<".", "m", "p", "4">>, <<".", "w", "e", "b", "m">>,
              <<".", "a", "v", "i">>, <<".", "m", "o", "v">>}
ImageExts == {<<".", "p", "n", "g">>, <<".", "j", "p", "g">>, <<".", "j", "p", "e", "g">>}

\* line 313
UploadedType(ext) ==
    IF ext \in VideoExts THEN "video" ELSE IF ext \in ImageExts THEN "image" ELSE "unknown"

\* line 326
InlineType(ext) == IF ext \in VideoExts THEN "video" ELSE "image"

\* the size test with <= for <
FitsInlineInclusive(size) == size <= Threshold

\* line 323
FitsInline(size) == size < Threshold

\* file_ext[1:]
StripDot(ext) == IF ext = <<>> THEN <<>> ELSE Tail(ext)

\* base64.b64encode(f.read()).decode('utf-8') of the file's content at that moment
Base64Of(path) == <<"base64", path.name>>

GetsizeFailed(path) == Exc("OSError", <<"No such file or directory: ", path>>)

\* lines 314-318
RemoteRecord(path, url) ==
    [type |-> UploadedType(path.name.ext), url |-> url, filename |-> path.name]

\* lines 327-331
InlineRecord(path) ==
    [type |-> InlineType(path.name.ext), data |-> Base64Of(path),
     format |-> StripDot(path.name.ext)]

\* lines 333-336
TooLargeRecord(size) ==
    [type |-> "error", error |-> <<"File too large for base64 encoding: ", size, " bytes">>]

\* lines 308-336 for the file at Python index i: the record appended, or the
\* exception that leaves the loop (os.path.getsize on a file that is gone)
DeliverFile(path, i, name, configured, put_ok, fstate) ==
    LET up == upload_to_s3(S3Key(name, i, path.name.ext), configured, put_ok)
    IN  IF up.ok
          THEN [ok |-> TRUE, value |-> RemoteRecord(path, up.value)]
          ELSE IF Missing(fstate)
                 THEN [ok |-> FALSE, exc |-> GetsizeFailed(path)]
                 ELSE IF FitsInline(fstate)
                        THEN [ok |-> TRUE, value |-> InlineRecord(path)]
                        ELSE [ok |-> TRUE, value |-> TooLargeRecord(fstate)]

\* lines 340-348
CompletedResult(urls) ==
    [status |-> "COMPLETED",
     outputs |-> urls,
     metadata |-> [workflow_name |-> workflow_name, execution_time |-> ExecTime,
                   prompt_id |-> prompt_id]]

\* lines 307-336 from the file at position k on: put_ok[k] and fstate[k] are what
\* the upload and the file system do for that file.  Gives the records, or the
\* exception that leaves the loop together with the records made before it.
RECURSIVE DeliverFrom(_, _, _, _, _, _, _)
DeliverFrom(files, k, name, configured, put_ok, fstate, urls) ==
    IF k > Len(files)
      THEN [ok |-> TRUE, value |-> urls]
      ELSE LET rec == DeliverFile(files[k], k - 1, name, configured, put_ok[k], fstate[k])
           IN  IF rec.ok
                 THEN DeliverFrom(files, k + 1, name, configured, put_ok, fstate,
                                  Append(urls, rec.value))
                 ELSE [ok |-> FALSE, exc |-> rec.exc, value |-> urls]

\* what happened to the files the loop got to: whether the upload went through,
\* how many put-objects it made, what it raised, and if it failed the size
\* os.path.getsize gave (negative: the file was gone)
RECURSIVE DeliveryLog(_, _, _, _, _, _)
DeliveryLog(files, k, name, configured, put_ok, fstate) ==
    IF k > Len(files)
      THEN <<>>
      ELSE LET up == upload_to_s3(S3Key(name, k - 1, files[k].name.ext), configured,
                                  put_ok[k])
           IN  IF up.ok
                 THEN <<[uploaded |-> TRUE, puts |-> up.puts]>>
                      \o DeliveryLog(files, k + 1, name, configured, put_ok, fstate)
                 ELSE <<[uploaded |-> FALSE, puts |-> up.puts, exc |-> up.exc.cls,
                         size |-> fstate[k]]>>
                      \o (IF Missing(fstate[k]) THEN <<>>
                          ELSE DeliveryLog(files, k + 1, name, configured, put_ok, fstate))

\* lines 303-348: the delivery loop over output_files, then the COMPLETED result
HandlerDeliver ==
    /\ pc["handler"] = "h_deliver"
    /\ stages' = Append(stages, "deliver")
    /\ \E put_ok \in [DOMAIN output_files -> BOOLEAN],
          fstate \in [DOMAIN output_files -> FileStates] :
        LET done == DeliverFrom(output_files, 1, workflow_name, s3_complete, put_ok,
                                fstate, <<>>)
        IN  /\ output_urls' = done.value
            /\ deliveries' = DeliveryLog(output_files, 1, workflow_name, s3_complete,
                                          put_ok, fstate)
            /\ IF done.ok
                 THEN /\ result' = CompletedResult(done.value)
                      /\ pc' = [pc EXCEPT !["handler"] = "h_done"]
                      /\ UNCHANGED raised
                 ELSE HandlerRaise(done.exc)
    /\ UNCHANGED <<supervisor, s3_complete, call, retry, sc_outcome, workflow_name, workflow_json, workflow,
                   params, prompt_id, outputs, output_files, waiting, posts, respawn_due,
                   fetch_failed, fetches, loads>>

(* --------------------------- the worker -------------------------------- *)
Next ==
    \/ \E p \in ProcIds : ServerStartsServing(p)
    \/ \E p \in ProcIds : ServerExits(p)
    \/ \E t \in Threads : Sc48(t)
    \/ \E t \in Threads : Sc51(t)
    \/ \E t \in Threads : Sc62(t)
    \/ \E t \in Threads : Sc74(t)
    \/ HandlerInvoke
    \/ HandlerResolve
    \/ HandlerBind
    \/ HandlerQueue
    \/ HandlerWait
    \/ HandlerCollect
    \/ HandlerDeliver

Spec == Init /\ [][Next]_vars

(* ------------------- functions called on their own --------------------- *)
\* everything but the call record
program == <<procs, comfyui_process, comfyui_ready, s3_complete, pc, retry, sc_outcome,
             locals, waiting, returned, records, respawn_due>>

\* the paths os.path.exists may be asked about, and their neighbours under the
\* output directory
CallPaths ==
    {OutputPath(f) : f \in FileNames \cup {EtcHosts}}
    \cup {[dir |-> "/comfyui/output", name |-> EtcHosts]}

GetOutputFilesCalls ==
    {[fn |-> "get_output_files", outputs |-> m, exists |-> e, done |-> FALSE, value |-> <<>>] :
        m \in CallManifests, e \in SUBSET CallPaths}

\* graphs for update_workflow_with_inputs on its own: a text-encode node without a
\* text input, and node ids that hold a "/"
GraphMixed ==
    <<TextNode(<<"6">>, "positive"),
      [id |-> <<"7">>, class_type |-> "CLIPTextEncode", inputs |-> [clip |-> "4"]],
      ImageNode(<<"10">>, "a.png"), OtherNode(<<"3">>), TextNode(<<"8">>, "negative")>>
GraphSlashIds == <<ImageNode(<<"a", "1">>, "a.png"), ImageNode(<<"b", "1">>, "b.png")>>
CallGraphs == {GraphT2V, GraphI2V, GraphCustom, GraphMixed, GraphSlashIds}

ImageUrl == "http://host/in.png"
CallParams ==
    { <<>>, [prompt |-> "B"], [positive_prompt |-> "A"],
      [positive_prompt |-> "A", prompt |-> "B"],
      [image_url |-> ImageUrl], [image_url |-> ImageUrl, prompt |-> "B"],
      [image_url |-> ImageUrl, positive_prompt |-> "A"],
      [image_url |-> ImageUrl, positive_prompt |-> "A", prompt |-> "B"] }

\* params is the dict the caller keeps; params_in is what it held before the call
UpdateCalls ==
    UNION {{[fn |-> "update_workflow_with_inputs", workflow |-> g, params |-> p,
             params_in |-> p, fetch_ok |-> f, done |-> FALSE, value |-> <<>>] :
               f \in SUBSET FetchNodes(g, p)} : g \in CallGraphs, p \in CallParams}

\* identifiers for load_workflow on its own: the registry keys and some strangers
CallNames ==
    DOMAIN AVAILABLE_WORKFLOWS \cup {"bogus", "", "T2V", "t2v.json", "None"}

LoadCalls ==
    {[fn |-> "load_workflow", workflow_type |-> n, file_exists |-> e, done |-> FALSE,
      value |-> <<>>] : n \in CallNames, e \in BOOLEAN}

PendingCalls == GetOutputFilesCalls \cup UpdateCalls \cup LoadCalls

CallsInit ==
    /\ call \in PendingCalls
    /\ procs = [p \in ProcIds |-> "unborn"]
    /\ comfyui_process = None
    /\ comfyui_ready = FALSE
    /\ s3_complete \in BOOLEAN
    /\ pc = [t \in Threads |-> IF t = "init" THEN "sc48" ELSE "h_idle"]
    /\ retry = [t \in Threads |-> 0]
    /\ sc_outcome = [t \in Threads |-> "none"]
    /\ workflow_name = PyNone
    /\ workflow_json = NoGraph
    /\ workflow = <<>>
    /\ params = <<>>
    /\ prompt_id = PyNone
    /\ outputs = <<>>
    /\ output_files = <<>>
    /\ output_urls = <<>>
    /\ elapsed = 0
    /\ history = NoHistory
    /\ result = NoResult
    /\ raised = NoExc
    /\ stages = <<>>
    /\ posts = 0
    /\ respawn_due = FALSE
    /\ fetch_failed = FALSE
    /\ deliveries = <<>>
    /\ fetches = <<>>
    /\ loads = 0

\* files = get_output_files(outputs)
CallGetOutputFiles ==
    /\ call.fn = "get_output_files"
    /\ ~call.done
    /\ call' = [call EXCEPT !.done = TRUE,
                            !.value = get_output_files(call.outputs, call.exists)]
    /\ UNCHANGED program

\* workflow = update_workflow_with_inputs(workflow, params): params is only read
CallUpdateWorkflow ==
    /\ call.fn = "update_workflow_with_inputs"
    /\ ~call.done
    /\ call' = [call EXCEPT
                  !.done = TRUE,
                  !.value = update_workflow_with_inputs(call.workflow, call.params,
                                                        call.fetch_ok)]
    /\ UNCHANGED program

\* workflow = load_workflow(workflow_name)
CallLoadWorkflow ==
    /\ call.fn = "load_workflow"
    /\ ~call.done
    /\ call' = [call EXCEPT !.done = TRUE,
                            !.value = load_workflow(call.workflow_type, call.file_exists)]
    /\ UNCHANGED program

CallsNext ==
    \/ CallGetOutputFiles
    \/ CallUpdateWorkflow
    \/ CallLoadWorkflow

Calls == CallsInit /\ [][CallsNext]_vars

(* ------------------------------ claims --------------------------------- *)
Range(seq) == {seq[k] : k \in DOMAIN seq}
IsPrefix(a, b) == Len(a) <= Len(b) /\ \A k \in DOMAIN a : a[k] = b[k]
HandlerDone == pc["handler"] = "h_done"

\* C1: every normal return of start_comfyui leaves comfyui_ready true, and the
\* only other ways the call ends are the process-died and the startup-timeout error
C1_NormalReturnLeavesReady ==
    \A t \in Threads :
        /\ sc_outcome[t] \in {"none", "returned", "died", "timeout"}
        /\ sc_outcome[t] = "returned" => comfyui_ready

\* C2: an invocation that begins while the server process is absent or has exited
\* reverts the ready flag and has a new process spawned before it submits a job
C2_DeadServerIsRespawned == pc["handler"] = "h_queue" => ~respawn_due

\* C3: with the pre-warm thread running beside the handler, POST /prompt is
\* issued only in a state where comfyui_ready is true
C3_SubmitOnlyWhenReady == pc["handler"] = "h_queue" => comfyui_ready

\* C4: every FAILED result carries error, status and execution_time
C4_FailedHasThreeFields ==
    (HandlerDone /\ result.status = "FAILED")
        => DOMAIN result = {"error", "status", "execution_time"}

\* C5: no exception leaves handler; it ends with status COMPLETED or FAILED, and a
\* result that comes from an exception is FAILED and carries the exception's message
C5_NeverPropagates ==
    /\ pc["handler"] # "h_crashed"
    /\ HandlerDone => result.status \in {"COMPLETED", "FAILED"}
    /\ raised # NoExc =>
          /\ HandlerDone
          /\ result.status = "FAILED"
          /\ result.error = raised.msg

\* an exception of a late stage has been turned into a FAILED result
C5_Witness ==
    /\ HandlerDone
    /\ raised.cls = "TimeoutError"
    /\ result.status = "FAILED"
    /\ result.error = raised.msg

\* the records the file at position k (Python index k - 1) can be given
RecordsOf(path, k) ==
    {RemoteRecord(path, S3Url(S3Key(workflow_name, k - 1, path.name.ext))),
     InlineRecord(path)}
    \cup {TooLargeRecord(size) : size \in Sizes}

\* C6: once files have been collected, the invocation ends COMPLETED with one
\* record per collected path, the i-th record belonging to the i-th path
C6_DeliveryNeverAborts ==
    (HandlerDone /\ output_files # <<>>) =>
        /\ result.status = "COMPLETED"
        /\ Len(result.outputs) = Len(output_files)
        /\ \A k \in DOMAIN output_files : result.outputs[k] \in RecordsOf(output_files[k], k)

C7_TenMiB == 10 * 1024 * 1024

\* C7: each file that gets a record gets exactly one, of the tier its upload and
\* size select: remote-url without data when the upload went through, inline base64
\* when it failed and the size is below 10 MiB, an error citing the size otherwise
C7_TieredRecord ==
    /\ Len(output_urls) <= Len(deliveries)
    /\ Len(deliveries) <= Len(output_urls) + 1
    /\ \A k \in DOMAIN output_urls :
        LET d == deliveries[k]
            r == output_urls[k]
        IN  IF d.uploaded
              THEN DOMAIN r = {"type", "url", "filename"}
              ELSE IF d.size < C7_TenMiB
                     THEN DOMAIN r = {"type", "data", "format"} /\ r.type # "error"
                     ELSE /\ DOMAIN r = {"type", "error"}
                          /\ r.type = "error"
                          /\ r.error[2] = d.size

\* two files delivered by the fallback, one on each side of the limit
C7_Witness ==
    /\ HandlerDone
    /\ result.status = "COMPLETED"
    /\ Len(output_urls) = 2
    /\ ~deliveries[1].uploaded /\ deliveries[1].size = C7_TenMiB - 1
    /\ ~deliveries[2].uploaded /\ deliveries[2].size = C7_TenMiB

\* C8: wait_for_completion returns only a non-empty manifest taken from a response
\* that holds the handle; after any other response it is still polling or has timed
\* out; the timeout error names the handle and comes only once the time is up
C8_WaitReturnsOutputs ==
    /\ pc["handler"] = "h_collect" =>
          /\ history.kind = "present"
          /\ history.outputs # <<>>
          /\ outputs = history.outputs
          /\ elapsed < 600
    /\ (history.kind = "absent" \/ (history.kind = "present" /\ history.outputs = <<>>)) =>
          \/ pc["handler"] = "h_wait"
          \/ HandlerDone /\ raised.cls = "TimeoutError"
    /\ raised.cls = "TimeoutError" =>
          /\ elapsed >= 600
          /\ raised.msg[2] = prompt_id
          /\ ~(history.kind = "present" /\ history.outputs # <<>>)

\* a return after a response that did not qualify
C8_Witness ==
    /\ pc["handler"] = "h_collect"
    /\ elapsed > 0
    /\ outputs # <<>>

\* C9: the stages run in the fixed order and none is skipped; after a failed
\* asset fetch no POST /prompt is issued; no upload happens before the completion
\* poll has returned outputs; a COMPLETED invocation went through every stage
C9_StagesInOrder ==
    /\ IsPrefix(stages, StageOrder)
    /\ fetch_failed => posts = 0 /\ "submit" \notin Range(stages)
    /\ posts > 0 => "bind" \in Range(stages)
    /\ deliveries # <<>> => outputs # <<>> /\ "collect" \in Range(stages) /\ posts = 1
    /\ (HandlerDone /\ result.status = "COMPLETED") => stages = StageOrder

\* an invocation ended by a failed download
C9_Witness ==
    /\ HandlerDone
    /\ fetch_failed
    /\ raised.cls = "RequestException"
    /\ stages = <<"ensure_ready", "resolve", "bind">>

\* the classification the delivery contract gives an extension
C10_Kind(ext) ==
    IF ext \in {<<".", "m", "p", "4">>, <<".", "w", "e", "b", "m">>,
                <<".", "a", "v", "i">>, <<".", "m", "o", "v">>}
      THEN "video"
      ELSE IF ext \in {<<".", "p", "n", "g">>, <<".", "j", "p", "g">>,
                       <<".", "j", "p", "e", "g">>}
             THEN "image"
             ELSE "unknown"

\* C10: the type of every record that is not an error record is the
\* classification of the file's extension, for remote-url and inline records alike
C10_TypeIsClassification ==
    \A k \in DOMAIN output_urls :
        output_urls[k].type # "error" =>
            output_urls[k].type = C10_Kind(output_files[k].name.ext)

\* every image and video descriptor of the manifest, in manifest order
RECURSIVE C11_Descriptors(_)
C11_Descriptors(manifest) ==
    IF manifest = <<>>
      THEN <<>>
      ELSE LET out == Head(manifest).out
           IN  (IF "images" \in DOMAIN out THEN out.images ELSE <<>>)
               \o (IF "videos" \in DOMAIN out THEN out.videos ELSE <<>>)
               \o C11_Descriptors(Tail(manifest))

\* /comfyui/output/<filename>
C11_UnderOutput(f) == [dir |-> "/comfyui/output", name |-> f]

\* the paths under the output directory that exist, one per descriptor, in order
RECURSIVE C11_Existing(_, _)
C11_Existing(descs, exists) ==
    IF descs = <<>>
      THEN <<>>
      ELSE LET d == Head(descs)
           IN  (IF "filename" \in DOMAIN d /\ C11_UnderOutput(d.filename) \in exists
                  THEN <<C11_UnderOutput(d.filename)>> ELSE <<>>)
               \o C11_Existing(Tail(descs), exists)

\* C11: get_output_files returns exactly the paths /comfyui/output/<filename> of
\* the image and video descriptors whose path exists, in manifest order, with
\* repeated filenames kept
C11_CollectsUnderOutput ==
    (call.fn = "get_output_files" /\ call.done) =>
        call.value = C11_Existing(C11_Descriptors(call.outputs), call.exists)

\* the text the binder is to give a text-encode node that carries a text input
C12_Text(old, ps) ==
    IF "positive_prompt" \in DOMAIN ps
      THEN ps.positive_prompt
      ELSE IF "prompt" \in DOMAIN ps THEN ps.prompt ELSE old

C12_Returned == call.fn = "update_workflow_with_inputs" /\ call.done /\ call.value.ok

\* C12: update_workflow_with_inputs sets the text of every CLIPTextEncode node that
\* has a text input to positive_prompt if present, else prompt if present, else
\* leaves it; it leaves params unchanged, and every node that is neither such a
\* text node nor a LoadImage node bound with image_url
C12_BindsText ==
    C12_Returned =>
        LET before == call.workflow
            after == call.value.value
        IN  /\ call.params = call.params_in
            /\ Len(after) = Len(before)
            /\ \A k \in DOMAIN before :
                 LET texty == before[k].class_type = "CLIPTextEncode"
                              /\ "text" \in DOMAIN before[k].inputs
                     imagey == before[k].class_type = "LoadImage"
                               /\ "image_url" \in DOMAIN call.params
                 IN  /\ texty =>
                           after[k] = [before[k] EXCEPT
                                         !.inputs.text = C12_Text(@, call.params)]
                     /\ (~texty /\ ~imagey) => after[k] = before[k]

\* both keys given, a text node rewritten to positive_prompt
C12_Witness ==
    /\ C12_Returned
    /\ {"positive_prompt", "prompt"} \subseteq DOMAIN call.params
    /\ call.workflow = GraphMixed
    /\ call.value.value[1].inputs.text = "A"
    /\ call.value.value[5].inputs.text = "A"

\* the LoadImage nodes of a graph, by position
C13_LoadImages(wf) == {k \in DOMAIN wf : wf[k].class_type = "LoadImage"}

RECURSIVE C13_Ids(_)
C13_Ids(wf) ==
    IF wf = <<>>
      THEN <<>>
      ELSE (IF Head(wf).class_type = "LoadImage" THEN <<Head(wf).id>> ELSE <<>>)
           \o C13_Ids(Tail(wf))

\* C13: with image_url present there is exactly one fetch per LoadImage node, each
\* such node's image input becomes a local filename, and two LoadImage nodes with
\* distinct ids get distinct filenames
C13_DistinctFilenames ==
    (C12_Returned /\ "image_url" \in DOMAIN call.params) =>
        LET before == call.workflow
            after == call.value.value
        IN  /\ call.value.fetched = C13_Ids(before)
            /\ \A k \in C13_LoadImages(before) : after[k].inputs.image # before[k].inputs.image
            /\ \A j, k \in C13_LoadImages(before) :
                 before[j].id # before[k].id => after[j].inputs.image # after[k].inputs.image

\* C14: with an S3 setting missing no put-object is made for any file, every
\* upload_to_s3 call fails with the configuration error, and every collected file
\* gets an inline or size-error record in a COMPLETED result
C14_NoPutWithoutConfig ==
    (~s3_complete /\ HandlerDone /\ output_files # <<>>) =>
        /\ \A k \in DOMAIN deliveries :
              /\ deliveries[k].puts = 0
              /\ ~deliveries[k].uploaded
              /\ deliveries[k].exc = "ValueError"
        /\ result.status = "COMPLETED"
        /\ Len(result.outputs) = Len(output_files)
        /\ \A k \in DOMAIN result.outputs :
              \/ DOMAIN result.outputs[k] = {"type", "data", "format"}
              \/ result.outputs[k].type = "error"

C15_PastResolve == pc["handler"] \in {"h_bind", "h_queue", "h_wait", "h_collect", "h_deliver"}

\* C15: when the event supplies workflow_json, whatever graph it is and whatever
\* workflow_name holds, the handler uses that graph and load_workflow is not
\* called; when neither key is supplied the handler returns FAILED and submits no job
C15_SuppliedGraphOverrides ==
    /\ workflow_json.present =>
          /\ loads = 0
          /\ pc["handler"] = "h_bind" => workflow = workflow_json.value
          /\ raised.cls \notin {"ValueError", "FileNotFoundError"}
    /\ (~workflow_json.present /\ workflow_name = PyNone) =>
          /\ ~C15_PastResolve
          /\ posts = 0
          /\ (HandlerDone /\ raised = NoExc) => result.status = "FAILED"

C16_Keys == {"t2v", "i2v", "fun_camera", "vace"}

\* C16: for an identifier outside the registry load_workflow fails with an
\* invalid-argument error that lists exactly the registry's keys; for a key whose
\* file is missing it fails with a not-found error; otherwise it returns the
\* deserialized stored definition; it never returns a graph for a stranger
C16_LoadWorkflow ==
    (call.fn = "load_workflow" /\ call.done) =>
        LET id == call.workflow_type
            v == call.value
        IN  /\ id \notin C16_Keys =>
                  /\ ~v.ok
                  /\ v.exc.cls = "ValueError"
                  /\ v.exc.msg[2] = id
                  /\ {v.exc.msg[4][k] : k \in DOMAIN v.exc.msg[4]} = C16_Keys
                  /\ Len(v.exc.msg[4]) = Cardinality(C16_Keys)
            /\ (id \in C16_Keys /\ ~call.file_exists) =>
                  ~v.ok /\ v.exc.cls = "FileNotFoundError"
            /\ (id \in C16_Keys /\ call.file_exists) =>
                  v.ok /\ v.value = StoredWorkflow(<<id, ".json">>)
            /\ v.ok => id \in C16_Keys

\* a stranger refused although a definition file is there
C16_Witness ==
    /\ call.fn = "load_workflow"
    /\ call.done
    /\ call.workflow_type = "bogus"
    /\ call.file_exists
    /\ call.value.exc.cls = "ValueError"

\* thread t takes a step of the poll loop
C17_Polls(t) == pc[t] = "sc74" /\ (pc'[t] # pc[t] \/ retry'[t] # retry[t])

C17_ExitSeen == comfyui_process # None /\ procs[comfyui_process] = "exited"

\* C17: a start_comfyui call makes at most 60 status polls; an iteration whose poll
\* did not succeed and that sees the process exited ends the call with the
\* process-died error, which carries the process's error output; the timeout
\* error comes only after the 60th poll, with no exit seen; comfyui_ready is set
\* only by a poll that returned 200
C17_BoundedPolling ==
    [][ /\ \A t \in Threads :
              /\ retry'[t] <= 59
              /\ C17_Polls(t) =>
                    /\ sc_outcome'[t] \in {"none", "returned", "died", "timeout", "AttributeError"}
                    /\ C17_ExitSeen =>
                          /\ pc'[t] # "sc74"
                          /\ sc_outcome'[t] \in {"returned", "died"}
                          /\ (sc_outcome'[t] = "died" /\ t = "handler") =>
                                /\ raised'.cls = "RuntimeError"
                                /\ raised'.msg[2] = <<"stderr", comfyui_process>>
                    /\ sc_outcome'[t] = "died" => C17_ExitSeen
                    /\ sc_outcome'[t] = "timeout" => retry[t] = 59 /\ ~C17_ExitSeen
                    /\ (retry[t] = 59) => pc'[t] # "sc74"
                    /\ sc_outcome'[t] = "returned" => comfyui_ready' /\ SomeServing
        /\ comfyui_ready' # comfyui_ready =>
              /\ comfyui_ready'
              /\ SomeServing
              /\ \E t \in Threads : C17_Polls(t) /\ sc_outcome'[t] = "returned"
      ]_vars

\* the handler's call has used up its 60 polls
C17_Witness ==
    /\ sc_outcome["handler"] = "timeout"
    /\ raised = StartTimeout
    /\ HandlerDone

\* C18: with the pre-warm thread and handler invocations taken one at a time, at
\* most one server process spawned by the worker is alive
C18_OneServerAlive == Cardinality(Alive) <= 1

\* C19: nothing is retried inside an invocation: at most one POST /prompt, at
\* most one put-object per collected file with the first failure going straight
\* to the fallback, at most one fetch per LoadImage node
C19_NothingRetried ==
    /\ posts <= 1
    /\ Len(deliveries) <= Len(output_files)
    /\ \A k \in DOMAIN deliveries :
          /\ deliveries[k].puts <= 1
          /\ (~deliveries[k].uploaded /\ k \in DOMAIN output_urls) =>
                \/ DOMAIN output_urls[k] = {"type", "data", "format"}
                \/ output_urls[k].type = "error"
    /\ \A j, k \in DOMAIN fetches : fetches[j] = fetches[k] => j = k
    /\ \A k \in DOMAIN fetches :
          \E n \in DOMAIN workflow :
              workflow[n].id = fetches[k] /\ workflow[n].class_type = "LoadImage"

\* a put-object failed once and the file went to the fallback; two nodes were fetched for
C19_Witness ==
    /\ HandlerDone
    /\ result.status = "COMPLETED"
    /\ Len(fetches) = 2
    /\ posts = 1
    /\ \E k \in DOMAIN deliveries : ~deliveries[k].uploaded /\ deliveries[k].puts = 1

\* C20: a COMPLETED result carries at least one delivery record; when the collector
\* finds no existing file the handler returns FAILED with the message
\* "No output files generated" and attempts no upload
C20_CompletedHasOutputs ==
    /\ (HandlerDone /\ result.status = "COMPLETED") => Len(result.outputs) >= 1
    /\ ("collect" \in Range(stages) /\ output_files = <<>>) =>
          /\ HandlerDone
          /\ result.status = "FAILED"
          /\ result.error = "No output files generated"
          /\ deliveries = <<>>
          /\ "deliver" \notin Range(stages)

\* a job completed and none of the files its manifest names exists
C20_Witness ==
    /\ HandlerDone
    /\ "collect" \in Range(stages)
    /\ outputs = ManBoth
    /\ output_files = <<>>
    /\ result.status = "FAILED"

====
